---- MODULE Spec2Model ----
(***************************************************************************)
(* Model of the three form widgets of the markdoc custom format generator: *)
(* DocFooterGenerator, ButtonListGenerator and RequestResponseGenerator.   *)
(*                                                                         *)
(* Text is modelled as a sequence of one-character strings, so that        *)
(* startsWith, trim, the regular-expression replacements and the template  *)
(* interpolation are computed character by character as the code does.     *)
(* The three components are mounted side by side by App and share no       *)
(* state; a behaviour of the model drives one of them (variable active),   *)
(* the other two stay in their state after construction.                   *)
(***************************************************************************)
EXTENDS Integers, Sequences, FiniteSets, TLC

VARIABLES
    active,        \* the component the user session drives
    links,         \* DocFooter: useState(links)
    seeAlso,       \* DocFooter: useState(seeAlso); <<>> is null, <<l>> is the link l
    showSeeAlso,   \* DocFooter: useState(showSeeAlso)
    items,         \* ButtonList: useState(items)
    method,        \* RequestResponse: useState(method)
    requests,      \* RequestResponse: useState(requests)
    response,      \* RequestResponse: useState(response)
    copied,        \* useState(copied) of each component
    pending,       \* per component: writeText promises not yet settled
    timers,        \* per component: setTimeout(() => setCopied(false)) not yet fired
    apiCall,       \* the browser API this step called, with its argument
    fnArg,         \* argument of the pure function under check
    fnRes          \* <<>> before the function is applied, <<r>> after

vars == <<active, links, seeAlso, showSeeAlso, items, method, requests, response,
          copied, pending, timers, apiCall, fnArg, fnRes>>

docFooterVars == <<links, seeAlso, showSeeAlso>>
buttonListVars == <<items>>
requestResponseVars == <<method, requests, response>>
copyVars == <<copied, pending, timers>>
fnVars == <<fnArg, fnRes>>

Components == {"DocFooter", "ButtonList", "RequestResponse"}

(***************************************************************************)
(* Bounds of the model.                                                    *)
(***************************************************************************)
MaxEntries == 2

MaxInFlight == 2

MaxUrlLen == 6

(***************************************************************************)
(* Text helpers.                                                           *)
(***************************************************************************)
Whitespace == {" ", "\n", "\t", "\r"}

\* a join that lists the elements last to first
RECURSIVE Join_reversed(_, _)
Join_reversed(ss, sep) ==
    IF ss = <<>> THEN <<>>
    ELSE IF Len(ss) = 1 THEN Head(ss)
    ELSE Join_reversed(Tail(ss), sep) \o sep \o Head(ss)

RECURSIVE Join(_, _)
Join(ss, sep) ==
    IF ss = <<>> THEN <<>>
    ELSE IF Len(ss) = 1 THEN Head(ss)
    ELSE Head(ss) \o sep \o Join(Tail(ss), sep)

\* a prefix test that stops one character short
startsWith_short(s, prefix) ==
    /\ Len(s) >= Len(prefix) - 1
    /\ SubSeq(s, 1, Len(prefix) - 1) = SubSeq(prefix, 1, Len(prefix) - 1)

startsWith(s, prefix) ==
    /\ Len(s) >= Len(prefix)
    /\ SubSeq(s, 1, Len(prefix)) = prefix

\* String.prototype.replace(/c/g, to) for a single character c; the text is
\* split in halves to keep the evaluation shallow
RECURSIVE ReplaceChar(_, _, _)
ReplaceChar(s, c, to) ==
    IF s = <<>> THEN <<>>
    ELSE IF Len(s) = 1 THEN (IF s[1] = c THEN to ELSE s)
    ELSE LET half == Len(s) \div 2
         IN  ReplaceChar(SubSeq(s, 1, half), c, to)
                 \o ReplaceChar(SubSeq(s, half + 1, Len(s)), c, to)

\* String.prototype.replace(/\s+/g, ' '): of every run of whitespace only the
\* last character stays, as a space
CollapseWhitespace(s) ==
    LET kept == SelectSeq([i \in 1..Len(s) |-> i],
                          LAMBDA i : \/ s[i] \notin Whitespace
                                     \/ i = Len(s)
                                     \/ s[i + 1] \notin Whitespace)
    IN  [k \in 1..Len(kept) |-> IF s[kept[k]] \in Whitespace THEN " " ELSE s[kept[k]]]

\* String.prototype.trim(): from the first to the last non-whitespace character
Trim(s) ==
    LET solid == {i \in 1..Len(s) : s[i] \notin Whitespace}
    IN  IF solid = {} THEN <<>>
        ELSE SubSeq(s, CHOOSE i \in solid : \A j \in solid : i <= j,
                       CHOOSE i \in solid : \A j \in solid : j <= i)

\* the quoted form JSON.stringify gives a string value
JsonEscapeChar(c) ==
    CASE c = "\"" -> <<"\\", "\"">>
      [] c = "\\" -> <<"\\", "\\">>
      [] c = "\n" -> <<"\\", "n">>
      [] c = "\t" -> <<"\\", "t">>
      [] c = "\r" -> <<"\\", "r">>
      [] OTHER -> <<c>>

RECURSIVE JsonEscape(_)
JsonEscape(s) ==
    IF s = <<>> THEN <<>>
    ELSE IF Len(s) = 1 THEN JsonEscapeChar(s[1])
    ELSE LET half == Len(s) \div 2
         IN  JsonEscape(SubSeq(s, 1, half)) \o JsonEscape(SubSeq(s, half + 1, Len(s)))

JsonString(s) == <<"\"">> \o JsonEscape(s) \o <<"\"">>

\* a stringify that puts spaces inside the braces and after ':' and ','
JsonLink_spaced(title, url) ==
    <<"{", " ">> \o JsonString(<<"t","i","t","l","e">>) \o <<":", " ">>
            \o JsonString(title) \o <<",", " ">> \o JsonString(<<"u","r","l">>)
            \o <<":", " ">> \o JsonString(url) \o <<" ", "}">>

\* JSON.stringify({ title, url })
JsonLink(title, url) ==
    <<"{">> \o JsonString(<<"t","i","t","l","e">>) \o <<":">> \o JsonString(title)
            \o <<",">> \o JsonString(<<"u","r","l">>) \o <<":">> \o JsonString(url)
            \o <<"}">>

\* JSON.stringify of an array of { title, url }
JsonLinks(ls) ==
    <<"[">> \o Join([i \in 1..Len(ls) |-> JsonLink(ls[i].title, ls[i].url)], <<",">>)
            \o <<"]">>

(***************************************************************************)
(* DocFooterGenerator                                                      *)
(***************************************************************************)
Guide ==
    <<"G","u","i","d","e">>

DocsGuide ==
    <<"/","d","o","c","s","/","g","u","i","d","e">>

DocNoS ==
    <<"/","d","o","c">>

\* the values the user types into the title and url inputs
Titles == {<<>>, Guide}

Urls == {<<>>, DocsGuide, DocNoS}

DocsPrefix ==
    <<"/","d","o","c","s">>

DocFooterPlaceholder ==
    <<"/","/"," ","P","l","e","a","s","e"," ","f","i","x"," ","v","a","l","i","d","a","t",
      "i","o","n"," ","e","r","r","o","r","s"," ","b","e","f","o","r","e"," ","g","e","n",
      "e","r","a","t","i","n","g"," ","t","h","e"," ","c","o","d","e">>

validateUrl(url) ==
    IF url = <<>> THEN "URL is required"
    ELSE IF ~startsWith(url, DocsPrefix) THEN "URL must start with /docs"
    ELSE ""

\* { title: '', url: '', urlError: '' }
EmptyLink == [title |-> <<>>, url |-> <<>>, urlError |-> ""]

handleAddLink(ls) == Append(ls, EmptyLink)

\* links.filter((_, i) => i !== index)
handleRemoveLink(ls, index) ==
    SubSeq(ls, 1, index - 1) \o SubSeq(ls, index + 1, Len(ls))

\* { ...link, [field]: value } with urlError recomputed when field is 'url'
changedLink(link, field, value) ==
    IF field = "url"
    THEN [link EXCEPT !.url = value, !.urlError = validateUrl(value)]
    ELSE [link EXCEPT !.title = value]

handleLinkChange(ls, index, field, value) ==
    [i \in 1..Len(ls) |-> IF i = index THEN changedLink(ls[i], field, value) ELSE ls[i]]

\* the updater given to setSeeAlso: prev || { title: '', url: '', urlError: '' }
handleSeeAlsoChange(prev, field, value) ==
    <<changedLink(IF prev = <<>> THEN EmptyLink ELSE prev[1], field, value)>>

\* the remove button of every link row: disabled={links.length === 1}
removeLinkDisabled(ls) == Len(ls) = 1

\* a validation that trusts the stored message instead of the url
linkHasError_stored(link) == link.urlError # "" \/ link.title = <<>>

linkHasError(link) == validateUrl(link.url) # "" \/ link.title = <<>>

\* a validation that forgets the titles
DocFooter_hasErrors_noTitle(ls, show, sa) ==
    LET linksHaveErrors == \E i \in 1..Len(ls) : validateUrl(ls[i].url) # ""
        seeAlsoHasErrors == show /\ sa # <<>> /\ validateUrl(sa[1].url) # ""
    IN  linksHaveErrors \/ seeAlsoHasErrors

DocFooter_hasErrors(ls, show, sa) ==
    LET linksHaveErrors == \E i \in 1..Len(ls) : linkHasError(ls[i])
        seeAlsoHasErrors == show /\ sa # <<>> /\ linkHasError(sa[1])
    IN  linksHaveErrors \/ seeAlsoHasErrors

DocFooter_generateMarkdoc(ls, show, sa) ==
    IF DocFooter_hasErrors(ls, show, sa) THEN DocFooterPlaceholder
    ELSE LET relatedLinksStr ==
                 CollapseWhitespace(ReplaceChar(JsonLinks(ls), "\"", <<"'">>))
             relatedPart ==
                 <<"r","e","l","a","t","e","d","L","i","n","k","s","=">> \o relatedLinksStr
             seeAlsoPushed ==
                 show /\ sa # <<>> /\ sa[1].title # <<>> /\ sa[1].url # <<>>
             seeAlsoStr ==
                 CollapseWhitespace(
                     ReplaceChar(JsonLink(sa[1].title, sa[1].url), "\"", <<"'">>))
             parts ==
                 IF seeAlsoPushed
                 THEN <<relatedPart, <<"s","e","e","A","l","s","o","=">> \o seeAlsoStr>>
                 ELSE <<relatedPart>>
         IN  <<"{","%"," ","d","o","c","f","o","o","t","e","r"," ">>
                 \o Join(parts, <<" ">>) \o <<" ","/","%","}">>

(***************************************************************************)
(* ButtonListGenerator                                                     *)
(***************************************************************************)
QuotedLabel ==
    <<"a","\"","b">>

SlashX ==
    <<"/","x">>

\* the values the user types into the label and link inputs
Labels == {<<>>, QuotedLabel}

ButtonLinks == {<<>>, SlashX}

ButtonListPlaceholder ==
    <<"/","/"," ","P","l","e","a","s","e"," ","f","i","l","l"," ","i","n"," ","a","l","l",
      " ","f","i","e","l","d","s"," ","f","o","r"," ","e","a","c","h"," ","b","u","t","t",
      "o","n">>

\* an add that puts the new entry first
addItem_prepend(its) == <<[label |-> <<>>, link |-> <<>>, id |-> Len(its) + 1]>> \o its

\* identifiers are (length + 1).toString(); toString is injective on the
\* naturals and identifiers are only compared, so they are kept as numbers
addItem(its) == Append(its, [label |-> <<>>, link |-> <<>>, id |-> Len(its) + 1])

removeItem(its, id) ==
    IF Len(its) = 1 THEN its
    ELSE SelectSeq(its, LAMBDA item : item.id # id)

updateItem(its, id, field, value) ==
    [i \in 1..Len(its) |->
        IF its[i].id = id
        THEN IF field = "label" THEN [its[i] EXCEPT !.label = value]
                                ELSE [its[i] EXCEPT !.link = value]
        ELSE its[i]]

ButtonList_hasErrors(its) ==
    \E i \in 1..Len(its) : its[i].label = <<>> \/ its[i].link = <<>>

buttonStr(item) ==
    <<"{"," ","l","a","b","e","l",":"," ","\"">> \o item.label
        \o <<"\"",","," ","l","i","n","k",":"," ","\"">> \o item.link
        \o <<"\""," ","}">>

ButtonList_generateMarkdoc(its) ==
    IF ButtonList_hasErrors(its) THEN ButtonListPlaceholder
    ELSE LET itemsStr == Join([i \in 1..Len(its) |-> buttonStr(its[i])], <<",", " ">>)
         IN  <<"{","%"," ","b","u","t","t","o","n","l","i","s","t"," ","i","t","e","m",
               "s","=","["," ">> \o itemsStr \o <<" ","]"," ","/","%","}">>

(***************************************************************************)
(* RequestResponseGenerator                                                *)
(***************************************************************************)
CURL ==
    <<"c","U","R","L">>

GO ==
    <<"G","o">>

GET ==
    <<"G","E","T">>

POST ==
    <<"P","O","S","T">>

\* the options the user picks in the two selects (two of each list)
Languages == {CURL, GO}

Methods == {GET, POST}

QuotedCode ==
    <<"a","'","\"","\n","b">>

QuotedResponse ==
    <<"o","\"","k">>

\* a text of whitespace only
Blank ==
    <<" ">>

\* the values the user types into the code and response textareas
Codes == {<<>>, QuotedCode, Blank}

Responses == {<<>>, QuotedResponse, Blank}

RequestResponsePlaceholder ==
    <<"/","/"," ","P","l","e","a","s","e"," ","f","i","l","l"," ","i","n"," ","a","l","l",
      " ","r","e","q","u","e","s","t"," ","c","o","d","e"," ","b","l","o","c","k","s"," ",
      "a","n","d"," ","r","e","s","p","o","n","s","e"," ","f","i","e","l","d">>

stringifyCode(code) ==
    CollapseWhitespace(
        ReplaceChar(ReplaceChar(Trim(code), "'", <<"\\", "'">>), "\n", <<"\\", "n">>))

addRequestBlock(reqs) ==
    Append(reqs, [language |-> CURL, code |-> <<>>, id |-> Len(reqs) + 1])

removeRequestBlock(reqs, id) ==
    IF Len(reqs) = 1 THEN reqs
    ELSE SelectSeq(reqs, LAMBDA req : req.id # id)

updateRequest(reqs, id, field, value) ==
    [i \in 1..Len(reqs) |->
        IF reqs[i].id = id
        THEN IF field = "language" THEN [reqs[i] EXCEPT !.language = value]
                                   ELSE [reqs[i] EXCEPT !.code = value]
        ELSE reqs[i]]

RequestResponse_hasErrors(reqs, resp) ==
    (\E i \in 1..Len(reqs) : reqs[i].code = <<>>) \/ resp = <<>>

requestStr(req) ==
    <<"{","l","a","n","g","u","a","g","e",":"," ","\"">> \o req.language
        \o <<"\"",","," ","c","o","d","e",":"," ","\"">> \o stringifyCode(req.code)
        \o <<"\"","}">>

RequestResponse_generateMarkdoc(m, reqs, resp) ==
    IF RequestResponse_hasErrors(reqs, resp) THEN RequestResponsePlaceholder
    ELSE LET requestsStr == Join([i \in 1..Len(reqs) |-> requestStr(reqs[i])], <<",">>)
         IN  <<"{","%"," ","r","e","q","u","e","s","t","r","e","s","p","o","n","s","e",
               " ","m","e","t","h","o","d","=","\"">> \o m
                 \o <<"\""," ","r","e","q","u","e","s","t","s","=","[">> \o requestsStr
                 \o <<"]"," ","r","e","s","p","o","n","s","e","=","\"">>
                 \o stringifyCode(resp) \o <<"\""," ","/","%","}">>

(***************************************************************************)
(* What is common to the three components: validation, serialization and   *)
(* the copy button, read on the current state.                             *)
(***************************************************************************)
hasErrors(w) ==
    CASE w = "DocFooter" -> DocFooter_hasErrors(links, showSeeAlso, seeAlso)
      [] w = "ButtonList" -> ButtonList_hasErrors(items)
      [] w = "RequestResponse" -> RequestResponse_hasErrors(requests, response)

generateMarkdoc(w) ==
    CASE w = "DocFooter" -> DocFooter_generateMarkdoc(links, showSeeAlso, seeAlso)
      [] w = "ButtonList" -> ButtonList_generateMarkdoc(items)
      [] w = "RequestResponse" ->
             RequestResponse_generateMarkdoc(method, requests, response)

Placeholder(w) ==
    CASE w = "DocFooter" -> DocFooterPlaceholder
      [] w = "ButtonList" -> ButtonListPlaceholder
      [] w = "RequestResponse" -> RequestResponsePlaceholder

\* apiCall when the step calls no browser API
NoCall == [name |-> "none", arg |-> <<>>]

\* a handleCopy without its validation test
handleCopyNeverReturns(w) == FALSE

\* the first statement of handleCopy: if (<validation fails>) return;
handleCopyReturnsEarly(w) == hasErrors(w)

(***************************************************************************)
(* State after construction: the useState initial values.                  *)
(***************************************************************************)
Constructed ==
    /\ links = <<EmptyLink>>
    /\ seeAlso = <<>>
    /\ showSeeAlso = FALSE
    /\ items = <<[label |-> <<>>, link |-> <<>>, id |-> 1]>>
    /\ method = GET
    /\ requests = <<[language |-> CURL, code |-> <<>>, id |-> 1]>>
    /\ response = <<>>
    /\ copied = [w \in Components |-> FALSE]
    /\ pending = [w \in Components |-> 0]
    /\ timers = [w \in Components |-> 0]
    /\ apiCall = NoCall

Init ==
    /\ active \in Components
    /\ Constructed
    /\ fnArg = <<>>
    /\ fnRes = <<>>

\* a step that calls neither the clipboard nor the console
noCall == apiCall' = NoCall /\ UNCHANGED <<active, fnVars>>

(***************************************************************************)
(* DocFooter events                                                        *)
(***************************************************************************)
AddLink ==
    /\ active = "DocFooter"
    /\ Len(links) < MaxEntries
    /\ links' = handleAddLink(links)
    /\ noCall
    /\ UNCHANGED <<seeAlso, showSeeAlso, buttonListVars, requestResponseVars, copyVars>>

\* a click on the remove button of row index; a disabled button fires nothing
RemoveLink ==
    /\ active = "DocFooter"
    /\ \E index \in 1..Len(links) :
           links' = IF removeLinkDisabled(links) THEN links
                    ELSE handleRemoveLink(links, index)
    /\ noCall
    /\ UNCHANGED <<seeAlso, showSeeAlso, buttonListVars, requestResponseVars, copyVars>>

LinkChange ==
    /\ active = "DocFooter"
    /\ \E index \in 1..Len(links) :
           \/ \E value \in Titles : links' = handleLinkChange(links, index, "title", value)
           \/ \E value \in Urls : links' = handleLinkChange(links, index, "url", value)
    /\ noCall
    /\ UNCHANGED <<seeAlso, showSeeAlso, buttonListVars, requestResponseVars, copyVars>>

\* the two see-also inputs are rendered only while showSeeAlso
SeeAlsoChange ==
    /\ active = "DocFooter"
    /\ showSeeAlso
    /\ \/ \E value \in Titles : seeAlso' = handleSeeAlsoChange(seeAlso, "title", value)
       \/ \E value \in Urls : seeAlso' = handleSeeAlsoChange(seeAlso, "url", value)
    /\ noCall
    /\ UNCHANGED <<links, showSeeAlso, buttonListVars, requestResponseVars, copyVars>>

\* a toggle that keeps the see-also link it had
toggleSeeAlso_keeps ==
    /\ active = "DocFooter"
    /\ showSeeAlso' = ~showSeeAlso
    /\ seeAlso' = IF seeAlso = <<>> THEN <<EmptyLink>> ELSE seeAlso
    /\ noCall
    /\ UNCHANGED <<links, buttonListVars, requestResponseVars, copyVars>>

toggleSeeAlso ==
    /\ active = "DocFooter"
    /\ showSeeAlso' = ~showSeeAlso
    /\ seeAlso' = IF ~showSeeAlso THEN <<EmptyLink>> ELSE <<>>
    /\ noCall
    /\ UNCHANGED <<links, buttonListVars, requestResponseVars, copyVars>>

(***************************************************************************)
(* ButtonList events.  The remove handler is taken on every row whatever   *)
(* the list length: its own length test covers the disabled button.        *)
(***************************************************************************)
AddItem ==
    /\ active = "ButtonList"
    /\ Len(items) < MaxEntries
    /\ items' = addItem(items)
    /\ noCall
    /\ UNCHANGED <<docFooterVars, requestResponseVars, copyVars>>

RemoveItem ==
    /\ active = "ButtonList"
    /\ \E i \in 1..Len(items) : items' = removeItem(items, items[i].id)
    /\ noCall
    /\ UNCHANGED <<docFooterVars, requestResponseVars, copyVars>>

UpdateItem ==
    /\ active = "ButtonList"
    /\ \E i \in 1..Len(items) :
           \/ \E value \in Labels : items' = updateItem(items, items[i].id, "label", value)
           \/ \E value \in ButtonLinks :
                  items' = updateItem(items, items[i].id, "link", value)
    /\ noCall
    /\ UNCHANGED <<docFooterVars, requestResponseVars, copyVars>>

(***************************************************************************)
(* RequestResponse events                                                  *)
(***************************************************************************)
SetMethod ==
    /\ active = "RequestResponse"
    /\ \E m \in Methods : method' = m
    /\ noCall
    /\ UNCHANGED <<requests, response, docFooterVars, buttonListVars, copyVars>>

AddRequestBlock ==
    /\ active = "RequestResponse"
    /\ Len(requests) < MaxEntries
    /\ requests' = addRequestBlock(requests)
    /\ noCall
    /\ UNCHANGED <<method, response, docFooterVars, buttonListVars, copyVars>>

RemoveRequestBlock ==
    /\ active = "RequestResponse"
    /\ \E i \in 1..Len(requests) :
           requests' = removeRequestBlock(requests, requests[i].id)
    /\ noCall
    /\ UNCHANGED <<method, response, docFooterVars, buttonListVars, copyVars>>

UpdateRequest ==
    /\ active = "RequestResponse"
    /\ \E i \in 1..Len(requests) :
           \/ \E value \in Languages :
                  requests' = updateRequest(requests, requests[i].id, "language", value)
           \/ \E value \in Codes :
                  requests' = updateRequest(requests, requests[i].id, "code", value)
    /\ noCall
    /\ UNCHANGED <<method, response, docFooterVars, buttonListVars, copyVars>>

SetResponse ==
    /\ active = "RequestResponse"
    /\ \E value \in Responses : response' = value
    /\ noCall
    /\ UNCHANGED <<method, requests, docFooterVars, buttonListVars, copyVars>>

(***************************************************************************)
(* The copy button.  handleCopy runs to its await in one step: it gives    *)
(* generateMarkdoc() to navigator.clipboard.writeText and leaves a promise *)
(* pending.  The promise settles in a later step, either way; on success   *)
(* the indicator is set and its reset timer scheduled.                     *)
(***************************************************************************)
handleCopy ==
    /\ pending[active] + timers[active] < MaxInFlight
    /\ IF handleCopyReturnsEarly(active)
       THEN /\ apiCall' = NoCall
            /\ UNCHANGED pending
       ELSE /\ apiCall' = [name |-> "writeText", arg |-> generateMarkdoc(active)]
            /\ pending' = [pending EXCEPT ![active] = @ + 1]
    /\ UNCHANGED <<active, fnVars, docFooterVars, buttonListVars, requestResponseVars,
                   copied, timers>>

\* await resolved: setCopied(true); setTimeout(() => setCopied(false), 2000)
WriteResolved ==
    /\ pending[active] > 0
    /\ pending' = [pending EXCEPT ![active] = @ - 1]
    /\ copied' = [copied EXCEPT ![active] = TRUE]
    /\ timers' = [timers EXCEPT ![active] = @ + 1]
    /\ noCall
    /\ UNCHANGED <<docFooterVars, buttonListVars, requestResponseVars>>

\* a failure path that still shows the indicator
WriteRejected_setsCopied ==
    /\ pending[active] > 0
    /\ pending' = [pending EXCEPT ![active] = @ - 1]
    /\ copied' = [copied EXCEPT ![active] = TRUE]
    /\ apiCall' = [name |-> "console.error", arg |-> <<>>]
    /\ UNCHANGED <<active, fnVars, docFooterVars, buttonListVars, requestResponseVars,
                   timers>>

\* await rejected: catch (err) { console.error('Failed to copy:', err) }
WriteRejected ==
    /\ pending[active] > 0
    /\ pending' = [pending EXCEPT ![active] = @ - 1]
    /\ apiCall' = [name |-> "console.error", arg |-> <<>>]
    /\ UNCHANGED <<active, fnVars, docFooterVars, buttonListVars, requestResponseVars,
                   copied, timers>>

\* a timer callback that leaves the indicator on
TimerFired_keepsCopied ==
    /\ timers[active] > 0
    /\ timers' = [timers EXCEPT ![active] = @ - 1]
    /\ noCall
    /\ UNCHANGED <<docFooterVars, buttonListVars, requestResponseVars, pending, copied>>

\* the timer callback: setCopied(false)
TimerFired ==
    /\ timers[active] > 0
    /\ timers' = [timers EXCEPT ![active] = @ - 1]
    /\ copied' = [copied EXCEPT ![active] = FALSE]
    /\ noCall
    /\ UNCHANGED <<docFooterVars, buttonListVars, requestResponseVars, pending>>

Next ==
    \/ AddLink \/ RemoveLink \/ LinkChange \/ SeeAlsoChange \/ toggleSeeAlso
    \/ AddItem \/ RemoveItem \/ UpdateItem
    \/ SetMethod \/ AddRequestBlock \/ RemoveRequestBlock \/ UpdateRequest \/ SetResponse
    \/ handleCopy \/ WriteResolved \/ WriteRejected \/ TimerFired

Spec == Init /\ [][Next]_vars

\* the reset timer of a shown indicator does fire
FairSpec == Spec /\ WF_vars(TimerFired)

(***************************************************************************)
(* validateUrl applied to every url over the characters of the prefix, up  *)
(* to MaxUrlLen characters.                                                *)
(***************************************************************************)
UrlAlphabet == {"/", "d", "o", "c", "s"}

UrlStrings == UNION {[1..n -> UrlAlphabet] : n \in 0..MaxUrlLen}

FnInit ==
    /\ active = "DocFooter"
    /\ Constructed
    /\ fnArg \in UrlStrings
    /\ fnRes = <<>>

ApplyValidateUrl ==
    /\ fnRes = <<>>
    /\ fnRes' = <<validateUrl(fnArg)>>
    /\ UNCHANGED <<active, fnArg, docFooterVars, buttonListVars, requestResponseVars,
                   copyVars, apiCall>>

FnNext == ApplyValidateUrl

FnSpec == FnInit /\ [][FnNext]_vars

(***************************************************************************)
(* Properties                                                              *)
(***************************************************************************)
IsTemplate(text) ==
    /\ startsWith(text, <<"{", "%", " ">>)
    /\ Len(text) >= 4
    /\ SubSeq(text, Len(text) - 3, Len(text)) = <<" ", "/", "%", "}">>

\* C1: in each of the three widgets the list always holds at least one entry
\* (a remove on a one-entry list leaves it unchanged, so the count never
\* drops below one).
C1_ListNeverEmpty ==
    /\ Len(links) >= 1
    /\ Len(items) >= 1
    /\ Len(requests) >= 1

\* the required-field rules as the specification words them
C2_LinkInvalid(l) ==
    \/ l.title = <<>>
    \/ l.url = <<>>
    \/ Len(l.url) < 5
    \/ \E k \in 1..5 : l.url[k] # DocsPrefix[k]

C2_Invalid(w) ==
    CASE w = "DocFooter" ->
             \/ \E i \in 1..Len(links) : C2_LinkInvalid(links[i])
             \/ showSeeAlso /\ (seeAlso = <<>> \/ C2_LinkInvalid(seeAlso[1]))
      [] w = "ButtonList" ->
             \E i \in 1..Len(items) : items[i].label = <<>> \/ items[i].link = <<>>
      [] w = "RequestResponse" ->
             \/ \E i \in 1..Len(requests) : requests[i].code = <<>>
             \/ response = <<>>

\* C2: in every reachable state of each widget, an invalid required field
\* makes generateMarkdoc return the widget's placeholder comment and hasErrors
\* true (copy disabled); with no invalid field generateMarkdoc returns a
\* template string and hasErrors is false.
C2_PlaceholderIffInvalid ==
    \A w \in Components :
        IF C2_Invalid(w)
        THEN generateMarkdoc(w) = Placeholder(w) /\ hasErrors(w)
        ELSE /\ IsTemplate(generateMarkdoc(w))
             /\ generateMarkdoc(w) # Placeholder(w)
             /\ ~hasErrors(w)

\* a see-also url without the prefix, every other field valid
C2_Witness ==
    /\ active = "DocFooter"
    /\ showSeeAlso
    /\ \A i \in 1..Len(links) : ~C2_LinkInvalid(links[i])
    /\ seeAlso # <<>>
    /\ seeAlso[1].title = Guide
    /\ seeAlso[1].url = DocNoS
    /\ generateMarkdoc("DocFooter") = DocFooterPlaceholder

\* C3: in every reachable state of the docfooter widget the stored urlError
\* of every link entry (and of the see-also link) equals validateUrl(url);
\* an entry with an empty url carries a non-empty message.
C3_UrlErrorIsValidateUrl ==
    /\ \A i \in 1..Len(links) : links[i].urlError = validateUrl(links[i].url)
    /\ seeAlso # <<>> => seeAlso[1].urlError = validateUrl(seeAlso[1].url)

\* C4: validateUrl returns '' exactly for the non-empty urls that begin with
\* '/docs' (any suffix, none included), 'URL is required' for the empty url
\* and 'URL must start with /docs' for every other url.
C4_ValidateUrl ==
    fnRes # <<>> =>
        LET hasPrefix == Len(fnArg) >= 5 /\ \A k \in 1..5 : fnArg[k] = DocsPrefix[k]
        IN  /\ fnRes[1] = "" <=> (fnArg # <<>> /\ hasPrefix)
            /\ fnArg = <<>> => fnRes[1] = "URL is required"
            /\ (fnArg # <<>> /\ ~hasPrefix) => fnRes[1] = "URL must start with /docs"

\* the prefix followed by a suffix is accepted
C4_Witness ==
    /\ fnRes = <<"">>
    /\ Len(fnArg) = 6

\* C5: a handleCopy invoked while validation fails writes nothing; every
\* string given to the clipboard is the serialized template of the state at
\* the moment of the invocation, never the placeholder comment.
C5_OnlyTemplatesWritten ==
    apiCall.name = "writeText" =>
        /\ ~hasErrors(active)
        /\ apiCall.arg = generateMarkdoc(active)
        /\ apiCall.arg # Placeholder(active)
        /\ IsTemplate(apiCall.arg)

\* a valid request/response form has just been copied
C5_Witness ==
    /\ active = "RequestResponse"
    /\ apiCall.name = "writeText"
    /\ Len(requests) = 2

C6_State ==
    /\ active = "DocFooter"
    /\ Len(links) = 1
    /\ links[1].title = Guide
    /\ links[1].url = DocsGuide
    /\ ~showSeeAlso

C6_Claimed ==
    <<"{","%"," ","d","o","c","f","o","o","t","e","r"," ","r","e","l","a","t","e","d","L",
      "i","n","k","s","=","[","{"," ","'","t","i","t","l","e","'",":"," ","'","G","u","i",
      "d","e","'",","," ","'","u","r","l","'",":"," ","'","/","d","o","c","s","/","g","u",
      "i","d","e","'"," ","}","]"," ","/","%","}">>

C6_Compact ==
    <<"{","%"," ","d","o","c","f","o","o","t","e","r"," ","r","e","l","a","t","e","d","L",
      "i","n","k","s","=","[","{","'","t","i","t","l","e","'",":","'","G","u","i","d","e",
      "'",",","'","u","r","l","'",":","'","/","d","o","c","s","/","g","u","i","d","e","'",
      "}","]"," ","/","%","}">>

\* C6 as stated: the single link { title: 'Guide', url: '/docs/guide' } with
\* see-also disabled serializes to
\* {% docfooter relatedLinks=[{ 'title': 'Guide', 'url': '/docs/guide' }] /%}
\* with spaces inside the braces and after the colons and the comma.
C6_SpacedOutput ==
    C6_State => generateMarkdoc("DocFooter") = C6_Claimed

\* C6 amended: the same state serializes to
\* {% docfooter relatedLinks=[{'title':'Guide','url':'/docs/guide'}] /%}
\* as JSON.stringify emits no space inside the braces or after ':' and ','.
C6_CompactOutput ==
    C6_State => generateMarkdoc("DocFooter") = C6_Compact

C6_Witness ==
    C6_State /\ generateMarkdoc("DocFooter") = C6_Compact

\* position k of text follows an odd number of consecutive backslashes
Escaped(text, k) ==
    LET others == {j \in 1..(k - 1) : text[j] # "\\"}
        last == IF others = {} THEN 0 ELSE CHOOSE j \in others : \A i \in others : i <= j
    IN  (k - 1 - last) % 2 = 1

\* the number of double quotes of text that are not escaped by a backslash
RawQuotes(text) ==
    Cardinality({k \in 1..Len(text) : text[k] = "\"" /\ ~Escaped(text, k)})

HasRawNewline(text) == \E k \in 1..Len(text) : text[k] = "\n"

\* C7: in the request/response and button-list serializers the quote and
\* whitespace characters of the field values are escaped before
\* interpolation: the emitted template holds no raw newline and no raw double
\* quote other than the two delimiters of each double-quoted attribute.
C7_ValuesEscaped ==
    /\ ~hasErrors("ButtonList") =>
           /\ RawQuotes(generateMarkdoc("ButtonList")) = 4 * Len(items)
           /\ ~HasRawNewline(generateMarkdoc("ButtonList"))
    /\ ~hasErrors("RequestResponse") =>
           /\ RawQuotes(generateMarkdoc("RequestResponse"))
                  = 4 + 4 * Len(requests)
           /\ ~HasRawNewline(generateMarkdoc("RequestResponse"))

\* C8: a copy whose write succeeds sets the copied indicator; with the reset
\* timer eventually fired the indicator eventually returns to false; with no
\* write pending and no timer pending the indicator is false.
C8_CopiedIndicator ==
    /\ [][(pending'[active] < pending[active] /\ apiCall'.name # "console.error")
              => copied'[active]]_vars
    /\ [](pending[active] = 0 /\ timers[active] = 0 => ~copied[active])
    /\ (copied[active] ~> ~copied[active])

C8_Witness ==
    /\ copied[active]
    /\ pending[active] = 0
    /\ timers[active] = 1

\* C9: a failed clipboard write is caught: the step that handles it does not
\* set the indicator, schedules no timer and changes no other widget state,
\* so the widget goes on accepting edits and copies as before.
C9_FailureChangesNothing ==
    [][apiCall'.name = "console.error" =>
           /\ pending'[active] = pending[active] - 1
           /\ copied' = copied
           /\ timers' = timers
           /\ UNCHANGED <<docFooterVars, buttonListVars, requestResponseVars>>
           /\ hasErrors(active)' = hasErrors(active)]_vars

\* a failure has just been logged, the indicator is off and the form valid
C9_Witness ==
    /\ apiCall.name = "console.error"
    /\ ~copied[active]
    /\ timers[active] = 0
    /\ ~hasErrors(active)

\* C10: an add appends exactly one entry with empty text fields (language
\* 'cURL' for a request block) after the unchanged existing entries; in the
\* button-list and request/response widgets its identifier is the list
\* length before the add, plus one.
C10_AddAppends ==
    [][/\ links' # links /\ Len(links') > Len(links) =>
              links' = links \o <<[title |-> <<>>, url |-> <<>>, urlError |-> ""]>>
       /\ items' # items /\ Len(items') > Len(items) =>
              items' = items \o <<[label |-> <<>>, link |-> <<>>, id |-> Len(items) + 1]>>
       /\ requests' # requests /\ Len(requests') > Len(requests) =>
              requests' = requests
                  \o <<[language |-> CURL, code |-> <<>>, id |-> Len(requests) + 1]>>
      ]_vars

\* an entry added after the first one was filled in
C10_Witness ==
    /\ Len(items) = 2
    /\ items[1] = [label |-> QuotedLabel, link |-> SlashX, id |-> 1]
    /\ items[2] = [label |-> <<>>, link |-> <<>>, id |-> 2]

\* the fields the serializers read, identifiers and stored messages left out
C11_Fields ==
    <<[i \in 1..Len(links) |-> <<links[i].title, links[i].url>>],
      showSeeAlso,
      [i \in 1..Len(seeAlso) |-> <<seeAlso[i].title, seeAlso[i].url>>],
      [i \in 1..Len(items) |-> <<items[i].label, items[i].link>>],
      method,
      [i \in 1..Len(requests) |-> <<requests[i].language, requests[i].code>>],
      response>>

\* the state rebuilt from those fields alone: no stored message, identifiers 0
C11_FromFields(w) ==
    CASE w = "DocFooter" ->
             DocFooter_generateMarkdoc(
                 [i \in 1..Len(links) |->
                     [title |-> C11_Fields[1][i][1], url |-> C11_Fields[1][i][2],
                      urlError |-> ""]],
                 C11_Fields[2],
                 [i \in 1..Len(seeAlso) |->
                     [title |-> C11_Fields[3][i][1], url |-> C11_Fields[3][i][2],
                      urlError |-> ""]])
      [] w = "ButtonList" ->
             ButtonList_generateMarkdoc(
                 [i \in 1..Len(items) |->
                     [label |-> C11_Fields[4][i][1], link |-> C11_Fields[4][i][2],
                      id |-> 0]])
      [] w = "RequestResponse" ->
             RequestResponse_generateMarkdoc(
                 C11_Fields[5],
                 [i \in 1..Len(requests) |->
                     [language |-> C11_Fields[6][i][1], code |-> C11_Fields[6][i][2],
                      id |-> 0]],
                 C11_Fields[7])

\* C11: the output of generateMarkdoc depends only on the serialized fields
\* (entry values in order, method, response, see-also toggle and values): in
\* every reachable state it is the output computed from those fields alone,
\* so two states that agree on the fields give the same string whatever
\* their history, identifiers, stored urlError strings and copied indicator.
C11_OutputOfFieldsOnly ==
    \A w \in Components : generateMarkdoc(w) = C11_FromFields(w)

\* a valid one-button list whose entry carries identifier 2 (entry 1 was
\* removed), with the copied indicator on
C11_Witness ==
    /\ active = "ButtonList"
    /\ Len(items) = 1
    /\ items[1].id = 2
    /\ ~hasErrors("ButtonList")
    /\ copied[active]

\* sub occurs in text
Contains(text, sub) ==
    \E k \in 1..(Len(text) - Len(sub) + 1) : SubSeq(text, k, k + Len(sub) - 1) = sub

endsWith(text, suffix) ==
    /\ Len(text) >= Len(suffix)
    /\ SubSeq(text, Len(text) - Len(suffix) + 1, Len(text)) = suffix

\* C12: with all docfooter fields valid the output is
\* '{% docfooter relatedLinks=[...] /%}' while see-also is off and
\* '{% docfooter relatedLinks=[...] seeAlso={...} /%}' while it is on; while
\* the toggle is off no see-also link is kept and no see-also title or url
\* could change validation or output; a toggle to on starts from the empty
\* link.
C12_SeeAlsoIffToggled ==
    /\ [](~hasErrors("DocFooter") =>
              LET out == generateMarkdoc("DocFooter")
              IN  /\ startsWith(out, <<"{","%"," ","d","o","c","f","o","o","t","e","r"," ","r","e","l","a","t","e","d","L","i","n","k","s","=","[">>)
                  /\ IF showSeeAlso
                     THEN /\ Contains(out, <<"]"," ","s","e","e","A","l","s","o","=","{","'","t","i","t","l","e","'",":">>)
                          /\ endsWith(out, <<"'","}"," ","/","%","}">>)
                     ELSE /\ ~Contains(out, <<"s","e","e","A","l","s","o","=">>)
                          /\ endsWith(out, <<"]"," ","/","%","}">>))
    /\ [](~showSeeAlso =>
              /\ seeAlso = <<>>
              /\ \A t \in Titles, u \in Urls :
                     LET sa == <<[title |-> t, url |-> u, urlError |-> validateUrl(u)]>>
                     IN  /\ DocFooter_hasErrors(links, showSeeAlso, sa)
                                = DocFooter_hasErrors(links, showSeeAlso, <<>>)
                         /\ DocFooter_generateMarkdoc(links, showSeeAlso, sa)
                                = DocFooter_generateMarkdoc(links, showSeeAlso, <<>>))
    /\ [][(~showSeeAlso /\ showSeeAlso') =>
              seeAlso' = <<[title |-> <<>>, url |-> <<>>, urlError |-> ""]>>]_vars

\* a valid form with see-also on, its attribute in the output
C12_Witness ==
    /\ active = "DocFooter"
    /\ showSeeAlso
    /\ ~hasErrors("DocFooter")
    /\ Contains(generateMarkdoc("DocFooter"), <<"]"," ","s","e","e","A","l","s","o","=","{","'","t","i","t","l","e","'",":">>)

\* C13: when successful copies overlap, the copied indicator stays true until
\* the delay of the most recent successful copy has elapsed: timers of equal
\* delay fire in the order they were set, so while any reset timer is still
\* to fire the most recent one is, and the indicator is on.
C13_IndicatorOutlastsEarlierTimer ==
    \A w \in Components : timers[w] > 0 => copied[w]

\* elems[1] sep elems[2] sep ... elems[n], built from the left
RECURSIVE C14_Listed(_, _)
C14_Listed(elems, sep) ==
    IF Len(elems) = 0 THEN <<>>
    ELSE IF Len(elems) = 1 THEN elems[1]
    ELSE C14_Listed(SubSeq(elems, 1, Len(elems) - 1), sep) \o sep \o elems[Len(elems)]

\* {language: "L", code: "C"} of request block i, C the stringified code
C14_RequestElement(i) ==
    <<"{","l","a","n","g","u","a","g","e",":"," ","\"">> \o requests[i].language
        \o <<"\"",","," ","c","o","d","e",":"," ","\"">> \o stringifyCode(requests[i].code)
        \o <<"\"","}">>

\* { label: "..", link: ".." } of button i
C14_ButtonElement(i) ==
    <<"{"," ","l","a","b","e","l",":"," ","\"">> \o items[i].label
        \o <<"\"",","," ","l","i","n","k",":"," ","\"">> \o items[i].link
        \o <<"\""," ","}">>

\* C14: in every valid state the template holds exactly one element per list
\* entry, in list order: the request/response output is
\* {% requestresponse method="M" requests=[e1,e2,...] response="R" /%} with M
\* the selected method and ei = {language: "L", code: "C"} of block i, joined
\* by ','; the button-list output is {% buttonlist items=[ b1, b2, ... ] /%}
\* with bi = { label: "..", link: ".." } of button i, joined by ', '.
C14_OneElementPerEntry ==
    /\ ~hasErrors("RequestResponse") =>
           generateMarkdoc("RequestResponse")
               = <<"{","%"," ","r","e","q","u","e","s","t","r","e","s","p","o","n","s","e"," ","m","e","t","h","o","d","=","\"">> \o method
                   \o <<"\""," ","r","e","q","u","e","s","t","s","=","[">>
                   \o C14_Listed([i \in 1..Len(requests) |-> C14_RequestElement(i)], <<",">>)
                   \o <<"]"," ","r","e","s","p","o","n","s","e","=","\"">> \o stringifyCode(response)
                   \o <<"\""," ","/","%","}">>
    /\ ~hasErrors("ButtonList") =>
           generateMarkdoc("ButtonList")
               = <<"{","%"," ","b","u","t","t","o","n","l","i","s","t"," ","i","t","e","m","s","=","["," ">>
                   \o C14_Listed([i \in 1..Len(items) |-> C14_ButtonElement(i)], <<",", " ">>)
                   \o <<" ","]"," ","/","%","}">>

\* a valid POST form of two blocks in different languages
C14_Witness ==
    /\ active = "RequestResponse"
    /\ ~hasErrors("RequestResponse")
    /\ method = POST
    /\ Len(requests) = 2
    /\ requests[1].language = GO
    /\ requests[2].language = CURL

\* the identifiers of a list are pairwise distinct
DistinctIds(list) ==
    \A i, j \in 1..Len(list) : list[i].id = list[j].id => i = j

\* C15: in the button-list and request/response widgets the identifiers of
\* the entries are pairwise distinct in every state reachable by add and
\* remove actions.
C15_IdsDistinct ==
    /\ DistinctIds(items)
    /\ DistinctIds(requests)

\* list without its entry at position i
WithoutEntry(list, i) == SubSeq(list, 1, i - 1) \o SubSeq(list, i + 1, Len(list))

\* after is before with at most one entry changed, same length and order
OneEntryEdited(before, after) ==
    /\ Len(after) = Len(before)
    /\ Cardinality({i \in 1..Len(before) : after[i] # before[i]}) <= 1

\* after is before without exactly one of its entries
OneEntryRemoved(before, after) ==
    \E i \in 1..Len(before) : after = WithoutEntry(before, i)

\* C16: in the button-list and request/response widgets an edit or remove
\* aimed at one displayed entry affects exactly that entry: an edit changes
\* one entry and leaves the others, the length and the order as they were; a
\* remove on a list of n > 1 entries leaves the n - 1 other entries in their
\* order.
C16_OneEntryAffected ==
    [][/\ (items' # items /\ Len(items') <= Len(items)) =>
              IF Len(items') = Len(items) THEN OneEntryEdited(items, items')
              ELSE OneEntryRemoved(items, items')
       /\ (requests' # requests /\ Len(requests') <= Len(requests)) =>
              IF Len(requests') = Len(requests) THEN OneEntryEdited(requests, requests')
              ELSE OneEntryRemoved(requests, requests')
      ]_vars

\* C17: whenever the request/response serializer emits the template, the
\* code value of every request element and the response value in the emitted
\* string are non-empty: a field that passes the non-empty validation, one of
\* whitespace only included, never serializes to an empty string.
C17_EmittedValuesNonEmpty ==
    ~hasErrors("RequestResponse") =>
        /\ \A i \in 1..Len(requests) : stringifyCode(requests[i].code) # <<>>
        /\ stringifyCode(response) # <<>>
        /\ ~Contains(generateMarkdoc("RequestResponse"), <<","," ","c","o","d","e",":"," ","\"","\"","}">>)
        /\ ~endsWith(generateMarkdoc("RequestResponse"), <<" ","r","e","s","p","o","n","s","e","=","\"","\""," ","/","%","}">>)

====
